---- MODULE Spec2Model ----
(***************************************************************************)
(* A model of gui_caption.py: the capture loop (audio_processing_loop),    *)
(* the PortAudio callbacks that feed it, the translation tasks it spawns   *)
(* and the Tk side (radio buttons, quit_app, periodic_gui_update).         *)
(*                                                                         *)
(* Strings are sequences of characters; the character " " is white space,  *)
(* every other character is an atom.  Samples are small naturals.          *)
(***************************************************************************)
EXTENDS Integers, Sequences, FiniteSets, TLC

(***************************************************************************)
(* Bounds of the model.                                                    *)
(***************************************************************************)
\* samplerate is 16000 in the program (line 232); the model scales it down.
samplerate == 2
\* events of the environment (clicks on the controls, PortAudio callbacks) in
\* one behaviour
MaxEnv == 2
\* Results that may be pushed in one behaviour
MaxPush == 5
\* the same two bounds where the audio path is studied in detail
AudioMaxEnv == 3
AudioMaxPush == 4
\* the same two bounds where fairness is assumed and liveness checked
FairMaxEnv == 2
FairMaxPush == 3
\* the same two bounds where the history of the display is recorded
DisplayMaxEnv == 3
DisplayMaxPush == 4
\* the same two bounds where a word of the previous mode is followed through
\* a mode switch
WordsMaxEnv == 2
WordsMaxPush == 5
\* the same two bounds where the translation context is filled beyond its
\* capacity
ContextMaxEnv == 2
ContextMaxPush == 7

\* what one callback invocation may deliver (indata, frames x 1)
Blocks == { <<0>>, <<1>>, <<0, 1>>, <<1, 1>> }
\* what model.transcribe may return as result['text']
RawTexts == { <<" ">>, <<" ", "hello">> }
Modes == { "mic", "sys", "mix" }
None == "None"

VARIABLES
  config,                    \* the values read from config.ini
  app_running,               \* self.app_running
  audio_source_mode,         \* self.audio_source_mode (tk.StringVar)
  show_translation,          \* self.show_translation (tk.BooleanVar)
  translation_text,          \* self.translation_text (tk.StringVar)
  subtitle_text_widget,      \* the text shown by self.subtitle_text_widget
  word_buffer,               \* self.word_buffer, deque(maxlen)
  translation_input_buffer,  \* self.translation_input_buffer, deque(maxlen=3)
  results_queue,             \* self.results_queue
  gui_pc,                    \* "idle", or "poll" inside periodic_gui_update
  pc,                        \* where audio_processing_loop stands
  mic_audio_queue, system_audio_queue,
  last_mode, current_mode, streams, audio_buffer,
  mic_chunks, system_chunks, processing_audio, recognized_text,
  tasks,                     \* the translate_task threads; sub (the id of the
                             \* task's Subtitle) and pushed (the id of its
                             \* Result, 0 before) are history fields
  hist                       \* history (not program state): counters and logs

vars == << config, app_running, audio_source_mode, show_translation,
           translation_text, subtitle_text_widget, word_buffer, translation_input_buffer,
           results_queue, gui_pc, pc, mic_audio_queue, system_audio_queue,
           last_mode, current_mode, streams, audio_buffer, mic_chunks,
           system_chunks, processing_audio, recognized_text, tasks, hist >>

(***************************************************************************)
(* Pure helpers.                                                           *)
(***************************************************************************)
RECURSIVE Flatten(_)
\* np.concatenate(chunks).flatten()
Flatten(chunks) ==
  IF chunks = << >> THEN << >> ELSE Head(chunks) \o Flatten(Tail(chunks))

\* np.pad(a, (0, n)): n zeros after a
Pad(a, n) == a \o [i \in 1..n |-> 0]

\* the two sources added over the shorter length only, nothing padded
MixChunks_Truncate(mics, syss) ==
  LET a == Flatten(mics)
      b == Flatten(syss)
  IN  IF mics = << >> THEN b
      ELSE IF syss = << >> THEN a
      ELSE [i \in 1..(IF Len(a) <= Len(b) THEN Len(a) ELSE Len(b)) |-> a[i] + b[i]]

\* lines 273-286: the chunk appended for one tick (<<>> when nothing came)
MixChunks(mics, syss) ==
  LET mixed0 == IF mics # << >> THEN Flatten(mics) ELSE << >>
  IN  IF syss = << >> THEN mixed0
      ELSE LET sys0 == Flatten(syss)
           IN  IF Len(mixed0) = 0 THEN sys0
               ELSE LET m1 == IF Len(mixed0) < Len(sys0)
                              THEN Pad(mixed0, Len(sys0) - Len(mixed0))
                              ELSE mixed0
                        s1 == IF Len(sys0) < Len(m1)
                              THEN Pad(sys0, Len(m1) - Len(sys0))
                              ELSE sys0
                    IN  [i \in 1..Len(m1) |-> m1[i] + s1[i]]

\* line 233
interval_samples == config.PROCESSING_INTERVAL_SECONDS * samplerate

RECURSIVE SumSq(_)
SumSq(w) == IF w = << >> THEN 0 ELSE Head(w) * Head(w) + SumSq(Tail(w))

\* the sum of the squares against the threshold, the mean forgotten
IsSilent_NoMean(w) ==
  /\ config.SILENCE_THRESHOLD > 0
  /\ SumSq(w) < config.SILENCE_THRESHOLD * config.SILENCE_THRESHOLD

\* <= in place of the < of line 296
IsSilent_OrEqual(w) ==
  /\ config.SILENCE_THRESHOLD >= 0
  /\ SumSq(w) <= config.SILENCE_THRESHOLD * config.SILENCE_THRESHOLD * Len(w)

\* lines 295-296: sqrt(mean(square(w))) < SILENCE_THRESHOLD, squared out
\* (both sides are >= 0 when the threshold is; a negative threshold gates nothing)
IsSilent(w) ==
  /\ config.SILENCE_THRESHOLD > 0
  /\ SumSq(w) < config.SILENCE_THRESHOLD * config.SILENCE_THRESHOLD * Len(w)

RECURSIVE LStrip(_)
LStrip(s) == IF s # << >> /\ Head(s) = " " THEN LStrip(Tail(s)) ELSE s

RECURSIVE RStrip(_)
RStrip(s) ==
  IF s # << >> /\ s[Len(s)] = " " THEN RStrip(SubSeq(s, 1, Len(s) - 1)) ELSE s

\* the strip() of line 300 forgotten
Strip_None(s) == s

\* str.strip()
Strip(s) == RStrip(LStrip(s))

RECURSIVE SplitFrom(_, _, _)
SplitFrom(s, cur, acc) ==
  IF s = << >> THEN (IF cur = << >> THEN acc ELSE Append(acc, cur))
  ELSE IF Head(s) = " "
       THEN SplitFrom(Tail(s), << >>, IF cur = << >> THEN acc ELSE Append(acc, cur))
       ELSE SplitFrom(Tail(s), Append(cur, Head(s)), acc)

\* str.split(): the words between runs of white space
Split(s) == SplitFrom(s, << >>, << >>)

RECURSIVE Join_NoSpace(_)
\* "".join(words)
Join_NoSpace(words) ==
  IF words = << >> THEN << >> ELSE Head(words) \o Join_NoSpace(Tail(words))

RECURSIVE Join(_)
\* " ".join(words)
Join(words) ==
  IF words = << >> THEN << >>
  ELSE IF Len(words) = 1 THEN Head(words)
  ELSE Head(words) \o <<" ">> \o Join(Tail(words))

\* a buffer that refuses what does not fit instead of evicting the oldest
DequeExtend_KeepOldest(d, xs, n) ==
  LET all == d \o xs
  IN  IF Len(all) <= n THEN all ELSE SubSeq(all, 1, n)

\* deque(maxlen=n).extend(xs) / append: the last n of the concatenation
DequeExtend(d, xs, n) ==
  LET all == d \o xs
  IN  IF Len(all) <= n THEN all ELSE SubSeq(all, Len(all) - n + 1, Len(all))

\* deque(maxlen=3), line 95
TranslationMaxLen == 3

(***************************************************************************)
(* The texts of the status Results.                                        *)
(***************************************************************************)
LoadedMsg == <<"model_loaded">>
LoadFailedMsg == <<"model_load_failed:", " ", "e">>
SwitchMsg(m) == <<"switch_to", " ", m, " ", "mode...">>
NoDeviceMsg(m) == <<"'", m, "'", " ", "mode_cannot_start">>
ErrorMsg == <<"error:", " ", "e">>

\* queue.LifoQueue in place of queue.Queue: the newest Result comes out first
Put_Front(q, t, x, origin) ==
  <<[type |-> t, text |-> x, id |-> hist.npushed + 1, origin |-> origin]>> \o q

\* results_queue.put({'type': t, 'text': x}); id and origin are history fields
\* (the serial number of the push and the line that pushed it)
Put(q, t, x, origin) ==
  Append(q, [type |-> t, text |-> x, id |-> hist.npushed + 1, origin |-> origin])

Pushed(h) == [h EXCEPT !.npushed = @ + 1]

(***************************************************************************)
(* Initial state: after CaptionApp.__init__ (lines 87-98) and the locals   *)
(* of audio_processing_loop before whisper.load_model (line 221).          *)
(***************************************************************************)
Configs ==
  [ MIC_DEVICE_ID : {None, "0"},
    SYSTEM_AUDIO_DEVICE_ID : {None, "1"},
    SILENCE_THRESHOLD : {1},
    PROCESSING_INTERVAL_SECONDS : {1},
    SHOW_TRANSLATION_DEFAULT : BOOLEAN,
    SUBTITLE_WORD_BUFFER_SIZE : {2} ]

InitWith(cfgs) ==
  /\ config \in cfgs
  /\ app_running = TRUE
  /\ audio_source_mode = "sys"
  /\ show_translation = config.SHOW_TRANSLATION_DEFAULT
  /\ translation_text = << >>
  /\ subtitle_text_widget = << >>
  /\ word_buffer = << >>
  /\ translation_input_buffer = << >>
  /\ results_queue = << >>
  /\ gui_pc = "idle"
  /\ pc = "load"
  /\ mic_audio_queue = << >>
  /\ system_audio_queue = << >>
  /\ last_mode = ""
  /\ current_mode = ""
  /\ streams = << >>
  /\ audio_buffer = << >>
  /\ mic_chunks = << >>
  /\ system_chunks = << >>
  /\ processing_audio = << >>
  /\ recognized_text = << >>
  /\ tasks = << >>
  /\ hist = [ npushed |-> 0,    \* Results pushed so far
              nconsumed |-> 0,  \* id of the Result the display consumed last
              nenv |-> 0,       \* clicks and callbacks so far
              balance |-> 0,    \* samples appended minus samples taken, since
                                \* the mixed buffer was last cleared
              owed |-> 0,       \* windows recognized minus subtitles pushed
              last_sub |-> 0,   \* id of the last Subtitle of recognized text
              dirty |-> FALSE,  \* the last mode switch found all buffers filled
              open_at_quit |-> 0,  \* streams in the list when quit_app ran
              done_at |-> 0,    \* Results pushed when the loop was left
              words |-> << >>,  \* the words the display took from Subtitles,
                                \* each with the id of its Result
              cleared_at |-> 0, \* Len(words) when line 246 ran last
              last_switch |-> 0,   \* id of the last switch-status Result consumed
              last_tr |-> << >>,   \* text of the last Translation consumed
                                   \* with the display enabled
              tr_cleared |-> FALSE,  \* a poll ended with the display disabled
                                     \* after that one was consumed
              toggled |-> FALSE,  \* the check button was clicked after the
                                  \* last poll ended
              stale |-> 0,      \* blocks in the per-source queues that were
                                \* enqueued before the last mode switch
              open_failed |-> FALSE,  \* the last mode switch raised at line
                                      \* 253 or 255
              segs |-> << >> ]  \* the segments appended at line 305 since
                                \* line 247 ran last

Init == InitWith(Configs)

(***************************************************************************)
(* The Tk side.  Tk runs one handler at a time: a click is not handled     *)
(* inside periodic_gui_update.                                             *)
(***************************************************************************)
GuiVars == << audio_source_mode, show_translation, translation_text,
             subtitle_text_widget, gui_pc >>
LoopLocals == << last_mode, current_mode, streams, audio_buffer, mic_chunks,
                 system_chunks, processing_audio, recognized_text >>
AudioQueues == << mic_audio_queue, system_audio_queue >>

\* a radio button of lines 153-158 is clicked
SetMode(m, max) ==
  /\ gui_pc = "idle" /\ app_running
  /\ m # audio_source_mode
  /\ hist.nenv < max
  /\ audio_source_mode' = m
  /\ hist' = [hist EXCEPT !.nenv = @ + 1]
  /\ UNCHANGED << config, app_running, show_translation, translation_text,
                  subtitle_text_widget, word_buffer, translation_input_buffer, results_queue, gui_pc,
                  pc, AudioQueues, LoopLocals, tasks >>

\* the check button of line 167 is clicked (track: whether the history of the
\* display is recorded in hist)
ToggleTranslation(max, track) ==
  /\ gui_pc = "idle" /\ app_running
  /\ hist.nenv < max
  /\ show_translation' = ~show_translation
  /\ hist' = [hist EXCEPT !.nenv = @ + 1, !.toggled = track]
  /\ UNCHANGED << config, app_running, audio_source_mode, translation_text,
                  subtitle_text_widget, word_buffer, translation_input_buffer, results_queue, gui_pc,
                  pc, AudioQueues, LoopLocals, tasks >>

\* lines 192-194; root.destroy() cancels the pending after() calls
quit_app ==
  /\ gui_pc = "idle" /\ app_running
  /\ app_running' = FALSE
  /\ hist' = [hist EXCEPT !.open_at_quit = Len(streams)]
  /\ UNCHANGED << config, GuiVars, word_buffer, translation_input_buffer,
                  results_queue, pc, AudioQueues, LoopLocals, tasks >>

\* periodic_gui_update runs: it was entered by the timer of line 217 (while
\* the root lives), or it is inside its while loop
Polling == gui_pc = "poll" \/ (gui_pc = "idle" /\ app_running)

\* lines 199-208: a subtitle Result reaches the rolling word buffer
ConsumeSubtitle(result) ==
  LET new_words == Split(Strip(result.text))
  IN  IF new_words # << >>
      THEN DequeExtend(word_buffer, new_words, config.SUBTITLE_WORD_BUFFER_SIZE)
      ELSE word_buffer

\* the test of line 210 forgotten
ConsumeTranslation_Always(result) == result.text

\* lines 209-211: a translation Result reaches the label
ConsumeTranslation(result) ==
  IF show_translation THEN result.text ELSE translation_text

\* one iteration of the while loop of lines 197-211
PollGet(track) ==
  /\ Polling
  /\ results_queue # << >>
  /\ gui_pc' = "poll"
  /\ LET result == Head(results_queue)
         new_words == IF result.type = "subtitle"
                      THEN Split(Strip(result.text)) ELSE << >>
         shown == result.type = "translation" /\ show_translation
     IN  /\ results_queue' = Tail(results_queue)
         /\ word_buffer' = IF result.type = "subtitle"
                           THEN ConsumeSubtitle(result) ELSE word_buffer
         /\ subtitle_text_widget' = IF new_words # << >>
                                    THEN Join(word_buffer')
                                    ELSE subtitle_text_widget
         /\ translation_text' = IF result.type = "translation"
                                THEN ConsumeTranslation(result)
                                ELSE translation_text
         /\ hist' = IF ~track THEN [hist EXCEPT !.nconsumed = result.id]
                    ELSE [hist EXCEPT
                            !.nconsumed = result.id,
                            !.words = @ \o [k \in 1..Len(new_words) |->
                                              [w |-> new_words[k], id |-> result.id]],
                            !.last_switch = IF result.origin = "switch"
                                            THEN result.id ELSE @,
                            !.last_tr = IF shown THEN result.text ELSE @,
                            !.tr_cleared = IF shown THEN FALSE ELSE @]
  /\ UNCHANGED << config, app_running, audio_source_mode, show_translation,
                  translation_input_buffer, pc, AudioQueues, LoopLocals, tasks >>

\* lines 213-217: the queue is found empty
PollEnd(track) ==
  /\ Polling
  /\ results_queue = << >>
  /\ translation_text' = IF ~show_translation THEN << >> ELSE translation_text
  /\ gui_pc' = "idle"
  /\ hist' = IF ~track THEN hist
             ELSE [hist EXCEPT
                     !.toggled = FALSE,
                     !.tr_cleared = IF ~show_translation /\ hist.last_tr # << >>
                                    THEN TRUE ELSE @]
  /\ UNCHANGED << config, app_running, audio_source_mode, show_translation,
                  subtitle_text_widget, word_buffer, translation_input_buffer,
                  results_queue, pc, AudioQueues, LoopLocals, tasks >>

(***************************************************************************)
(* The PortAudio callbacks (lines 249-250): a started stream delivers a    *)
(* block at its own pace.                                                  *)
(***************************************************************************)
Started(dev) == \E i \in 1..Len(streams) : streams[i].dev = dev /\ streams[i].started

mic_callback(blocks, max) ==
  /\ Started("mic")
  /\ hist.nenv < max
  /\ \E indata \in blocks : mic_audio_queue' = Append(mic_audio_queue, indata)
  /\ hist' = [hist EXCEPT !.nenv = @ + 1]
  /\ UNCHANGED << config, app_running, GuiVars, word_buffer,
                  translation_input_buffer, results_queue, pc,
                  system_audio_queue, LoopLocals, tasks >>

system_callback(blocks, max) ==
  /\ Started("sys")
  /\ hist.nenv < max
  /\ \E indata \in blocks : system_audio_queue' = Append(system_audio_queue, indata)
  /\ hist' = [hist EXCEPT !.nenv = @ + 1]
  /\ UNCHANGED << config, app_running, GuiVars, word_buffer,
                  translation_input_buffer, results_queue, pc,
                  mic_audio_queue, LoopLocals, tasks >>

(***************************************************************************)
(* audio_processing_loop, one action per stretch between two accesses to   *)
(* state that another thread touches.  pc names the statement the thread   *)
(* executes next; at the positions of AtWhile that is the test of line 235 *)
(* and pc tells how the thread came back to it.  A local keeps its value   *)
(* until the code assigns it again.                                        *)
(***************************************************************************)
AtWhile == { "loaded",      \* after line 222
             "nodevice",    \* the continue of line 261, after the sleep of 260
             "short",       \* after the sleep of line 313
             "silent",      \* the continue of line 297
             "notext",      \* line 302 found no text
             "dispatched",  \* after lines 304-311
             "handled" }    \* after the sleep of line 318

\* a tk variable read from the loop thread raises once the root is destroyed
\* (quit_app, line 194); right after line 193 it may still answer
TkMayRaise == ~app_running

\* lines 220-225
LoadModel ==
  /\ pc = "load"
  /\ \/ /\ results_queue' = Put(results_queue, "subtitle", LoadedMsg, "loaded")
        /\ pc' = "loaded"
     \/ /\ results_queue' = Put(results_queue, "subtitle", LoadFailedMsg, "loadfailed")
        /\ pc' = "returned"
  /\ hist' = Pushed(hist)
  /\ UNCHANGED << config, app_running, GuiVars, word_buffer,
                  translation_input_buffer, AudioQueues, LoopLocals, tasks >>

\* lines 320-322 forgotten: the list is left as it is
CloseAll_Leak(ss) == ss

\* lines 320-322: every stream of the list is stopped and closed
CloseAll(ss) == << >>

\* line 235, and lines 320-322 when the flag is down.  A new iteration is begun
\* only while the behaviour has pushes left (the bound of the model).
LoopCheck(max) ==
  /\ pc \in AtWhile
  /\ IF app_running
     THEN /\ hist.npushed + 2 <= max
          /\ pc' = "readmode"
          /\ UNCHANGED << streams, hist >>
     ELSE /\ pc' = "done"
          /\ streams' = CloseAll(streams)
          /\ hist' = [hist EXCEPT !.done_at = hist.npushed]
  /\ UNCHANGED << config, app_running, GuiVars, word_buffer,
                  translation_input_buffer, results_queue, AudioQueues,
                  last_mode, current_mode, audio_buffer, mic_chunks,
                  system_chunks, processing_audio, recognized_text, tasks >>

\* lines 237-238
ReadMode ==
  /\ pc = "readmode"
  /\ \/ /\ current_mode' = audio_source_mode
        /\ pc' = IF audio_source_mode # last_mode THEN "switch" ELSE "collect"
     \/ /\ TkMayRaise
        /\ pc' = "except"
        /\ UNCHANGED current_mode
  /\ UNCHANGED << config, app_running, GuiVars, word_buffer,
                  translation_input_buffer, results_queue, AudioQueues,
                  last_mode, streams, audio_buffer, mic_chunks, system_chunks,
                  processing_audio, recognized_text, tasks, hist >>

\* lines 239-245
SwitchClose ==
  /\ pc = "switch"
  /\ streams' = CloseAll(streams)
  /\ audio_buffer' = << >>
  /\ last_mode' = current_mode
  /\ results_queue' = Put(results_queue, "subtitle", SwitchMsg(current_mode), "switch")
  /\ hist' = [Pushed(hist) EXCEPT
                !.balance = 0,
                !.stale = Len(mic_audio_queue) + Len(system_audio_queue),
                !.open_failed = FALSE,
                !.dirty = /\ last_mode # ""
                          /\ audio_buffer # << >>
                          /\ word_buffer # << >>
                          /\ translation_input_buffer # << >>]
  /\ pc' = "clear"
  /\ UNCHANGED << config, app_running, GuiVars, word_buffer,
                  translation_input_buffer, AudioQueues, current_mode,
                  mic_chunks, system_chunks, processing_audio, recognized_text,
                  tasks >>

\* line 247 forgotten: the translation context survives the switch
SwitchClear_KeepContext ==
  /\ pc = "clear"
  /\ word_buffer' = << >>
  /\ pc' = "open"
  /\ hist' = [hist EXCEPT !.cleared_at = Len(hist.words)]
  /\ UNCHANGED << config, app_running, GuiVars, results_queue, AudioQueues,
                  LoopLocals, tasks, translation_input_buffer >>

\* lines 246-247
SwitchClear ==
  /\ pc = "clear"
  /\ word_buffer' = << >>
  /\ translation_input_buffer' = << >>
  /\ pc' = "open"
  /\ hist' = [hist EXCEPT !.cleared_at = Len(hist.words), !.segs = << >>]
  /\ UNCHANGED << config, app_running, GuiVars, results_queue, AudioQueues,
                  LoopLocals, tasks >>

\* the tests on current_mode forgotten: every configured device is opened
Wanted_AllConfigured(mode) ==
  (IF config.MIC_DEVICE_ID # None THEN <<"mic">> ELSE << >>)
  \o (IF config.SYSTEM_AUDIO_DEVICE_ID # None THEN <<"sys">> ELSE << >>)

\* lines 252 and 254: the devices the mode asks for, among the configured ones
Wanted(mode) ==
  (IF mode \in {"mic", "mix"} /\ config.MIC_DEVICE_ID # None
   THEN <<"mic">> ELSE << >>)
  \o (IF mode \in {"sys", "mix"} /\ config.SYSTEM_AUDIO_DEVICE_ID # None
      THEN <<"sys">> ELSE << >>)

\* sd.InputStream(...) for each device: created, not yet started
Opened(devs) == [i \in 1..Len(devs) |-> [dev |-> devs[i], started |-> FALSE]]
\* lines 263-264
StartAll(ss) == [i \in 1..Len(ss) |-> [ss[i] EXCEPT !.started = TRUE]]

\* lines 257-261: no stream was created
NoStream ==
  /\ results_queue' = Put(results_queue, "subtitle", NoDeviceMsg(current_mode), "nodevice")
  /\ hist' = Pushed(hist)
  /\ last_mode' = ""
  /\ pc' = "nodevice"
  /\ UNCHANGED streams

\* lines 252-264.  sd.InputStream may raise for the k-th wanted device: the
\* streams created before it stay in the list, not started.
SwitchOpen ==
  /\ pc = "open"
  /\ LET devs == Wanted(current_mode)
     IN  \/ /\ devs = << >>
            /\ NoStream
         \/ /\ devs # << >>
            /\ streams' = StartAll(Opened(devs))
            /\ pc' = "collect"
            /\ UNCHANGED << results_queue, hist, last_mode >>
         \/ \E k \in 1..Len(devs) :
              /\ streams' = Opened(SubSeq(devs, 1, k - 1))
              /\ pc' = "except"
              /\ hist' = [hist EXCEPT !.open_failed = TRUE]
              /\ UNCHANGED << results_queue, last_mode >>
  /\ UNCHANGED << config, app_running, GuiVars, word_buffer,
                  translation_input_buffer, AudioQueues, current_mode,
                  audio_buffer, mic_chunks, system_chunks, processing_audio,
                  recognized_text, tasks >>

\* lines 267-288: both queues are drained and what came is mixed and appended
Collect ==
  /\ pc = "collect"
  /\ mic_chunks' = mic_audio_queue
  /\ system_chunks' = system_audio_queue
  /\ mic_audio_queue' = << >>
  /\ system_audio_queue' = << >>
  /\ LET mixed_audio_chunk == MixChunks(mic_audio_queue, system_audio_queue)
     IN  /\ audio_buffer' = audio_buffer \o mixed_audio_chunk
         /\ hist' = [hist EXCEPT !.balance = @ + Len(mixed_audio_chunk),
                                 !.stale = 0]
  /\ pc' = "take"
  /\ UNCHANGED << config, app_running, GuiVars, word_buffer,
                  translation_input_buffer, results_queue, last_mode,
                  current_mode, streams, processing_audio, recognized_text,
                  tasks >>

\* line 291
HasWindow(buf) == Len(buf) >= interval_samples
\* line 292: audio_buffer[:interval_samples]
WindowOf(buf) == SubSeq(buf, 1, interval_samples)
\* audio_buffer[interval_samples - 1:] in place of line 293
RestOf_OffByOne(buf) == SubSeq(buf, interval_samples, Len(buf))

\* line 293: audio_buffer[interval_samples:]
RestOf(buf) == SubSeq(buf, interval_samples + 1, Len(buf))

\* lines 291-293, and 312-313 when the buffer is short
TakeWindow ==
  /\ pc = "take"
  /\ IF HasWindow(audio_buffer)
     THEN /\ processing_audio' = WindowOf(audio_buffer)
          /\ audio_buffer' = RestOf(audio_buffer)
          /\ hist' = [hist EXCEPT !.balance = @ - Len(processing_audio')]
          /\ pc' = "gate"
     ELSE /\ pc' = "short"
          /\ UNCHANGED << processing_audio, audio_buffer, hist >>
  /\ UNCHANGED << config, app_running, GuiVars, word_buffer,
                  translation_input_buffer, results_queue, AudioQueues,
                  last_mode, current_mode, streams, mic_chunks, system_chunks,
                  recognized_text, tasks >>

\* lines 295-297
SilenceGate ==
  /\ pc = "gate"
  /\ pc' = IF IsSilent(processing_audio) THEN "silent" ELSE "transcribe"
  /\ UNCHANGED << config, app_running, GuiVars, word_buffer,
                  translation_input_buffer, results_queue, AudioQueues,
                  LoopLocals, tasks, hist >>

\* lines 299-302: model.transcribe returns some text, or raises; reading the
\* language (a tk variable) may raise too
Transcribe(texts) ==
  /\ pc = "transcribe"
  /\ \/ \E raw \in texts :
          /\ recognized_text' = Strip(raw)
          /\ pc' = IF Strip(raw) # << >> THEN "put" ELSE "notext"
          /\ hist' = IF Strip(raw) # << >>
                     THEN [hist EXCEPT !.owed = @ + 1] ELSE hist
     \/ /\ pc' = "except"
        /\ UNCHANGED << recognized_text, hist >>
  /\ UNCHANGED << config, app_running, GuiVars, word_buffer,
                  translation_input_buffer, results_queue, AudioQueues,
                  last_mode, current_mode, streams, audio_buffer, mic_chunks,
                  system_chunks, processing_audio, tasks >>

\* line 303
PutSubtitle ==
  /\ pc = "put"
  /\ results_queue' = Put(results_queue, "subtitle", recognized_text, "recognized")
  /\ hist' = [Pushed(hist) EXCEPT !.owed = @ - 1, !.last_sub = hist.npushed + 1]
  /\ pc' = "dispatch"
  /\ UNCHANGED << config, app_running, GuiVars, word_buffer,
                  translation_input_buffer, AudioQueues, LoopLocals, tasks >>

\* lines 304-311
Dispatch ==
  /\ pc = "dispatch"
  /\ \/ /\ show_translation
        /\ LET buf == DequeExtend(translation_input_buffer, <<recognized_text>>,
                                  TranslationMaxLen)
           IN  /\ translation_input_buffer' = buf
               /\ tasks' = Append(tasks, [text |-> Join(buf), pc |-> "translate",
                                          translated |-> << >>,
                                          sub |-> hist.last_sub, pushed |-> 0])
        /\ hist' = [hist EXCEPT !.segs = Append(@, recognized_text)]
        /\ pc' = "dispatched"
     \/ /\ ~show_translation
        /\ pc' = "dispatched"
        /\ UNCHANGED << translation_input_buffer, tasks, hist >>
     \/ /\ TkMayRaise
        /\ pc' = "except"
        /\ UNCHANGED << translation_input_buffer, tasks, hist >>
  /\ UNCHANGED << config, app_running, GuiVars, word_buffer, results_queue,
                  AudioQueues, LoopLocals >>

\* a handler that reports the error and gives the loop up
HandleError_Return ==
  /\ pc = "except"
  /\ results_queue' = Put(results_queue, "subtitle", ErrorMsg, "error")
  /\ hist' = Pushed(hist)
  /\ pc' = "returned"
  /\ UNCHANGED << config, app_running, GuiVars, word_buffer,
                  translation_input_buffer, AudioQueues, LoopLocals, tasks >>

\* lines 315-318
HandleError ==
  /\ pc = "except"
  /\ results_queue' = Put(results_queue, "subtitle", ErrorMsg, "error")
  /\ hist' = Pushed(hist)
  /\ pc' = "handled"
  /\ UNCHANGED << config, app_running, GuiVars, word_buffer,
                  translation_input_buffer, AudioQueues, LoopLocals, tasks >>

(***************************************************************************)
(* translate_task (lines 307-310), one thread per task.                    *)
(***************************************************************************)
\* translate_text, lines 58-73: the translation, or a placeholder
Translations(text) == { <<"ZH:">> \o text, <<"[translation_error]">> }

\* line 309 forgotten: the task pushes whatever the flag says
TaskTranslate_NoTest(i) ==
  /\ tasks[i].pc = "translate"
  /\ \E translated \in Translations(tasks[i].text) :
       tasks' = [tasks EXCEPT ![i].translated = translated, ![i].pc = "put"]
  /\ UNCHANGED << config, app_running, GuiVars, word_buffer,
                  translation_input_buffer, results_queue, pc, AudioQueues,
                  LoopLocals, hist >>

\* lines 308-309: translate_text returns, then the flag is read.  Or line 72
\* raises what lines 70-73 do not catch (a TypeError when the JSON answer is
\* not an object holding a list of objects, a ValueError from response.json()
\* with a requests older than 2.27): the exception leaves translate_task and
\* the thread ends.
TaskTranslate(i) ==
  /\ tasks[i].pc = "translate"
  /\ \/ \E translated \in Translations(tasks[i].text) :
          tasks' = [tasks EXCEPT ![i].translated = translated,
                                 ![i].pc = IF app_running THEN "put" ELSE "done"]
     \/ tasks' = [tasks EXCEPT ![i].pc = "raised"]
  /\ UNCHANGED << config, app_running, GuiVars, word_buffer,
                  translation_input_buffer, results_queue, pc, AudioQueues,
                  LoopLocals, hist >>

\* line 310
TaskPut(i) ==
  /\ tasks[i].pc = "put"
  /\ results_queue' = Put(results_queue, "translation", tasks[i].translated, "task")
  /\ hist' = Pushed(hist)
  /\ tasks' = [tasks EXCEPT ![i].pc = "done", ![i].pushed = hist.npushed + 1]
  /\ UNCHANGED << config, app_running, GuiVars, word_buffer,
                  translation_input_buffer, pc, AudioQueues, LoopLocals >>

\* a callback that delivers a little more than one interval of loud samples
LongBlock == [i \in 1..(interval_samples + 1) |-> 1]

TaskStep == \E i \in 1..Len(tasks) : TaskTranslate(i) \/ TaskPut(i)

(***************************************************************************)
(* The whole program: the Tk side, the callbacks, the loop thread and the  *)
(* translation tasks, for max_env events of the environment and max_push   *)
(* Results.  In these specifications a callback delivers LongBlock.        *)
(***************************************************************************)
\* the steps of the loop thread
LoopNext(max_push) ==
  \/ LoadModel
  \/ LoopCheck(max_push)
  \/ ReadMode
  \/ SwitchClose
  \/ SwitchClear
  \/ SwitchOpen
  \/ Collect
  \/ TakeWindow
  \/ SilenceGate
  \/ Transcribe(RawTexts)
  \/ PutSubtitle
  \/ Dispatch
  \/ HandleError

ProgramNext(max_env, max_push) ==
  \/ \E m \in Modes : SetMode(m, max_env)
  \/ ToggleTranslation(max_env, FALSE)
  \/ quit_app
  \/ PollGet(FALSE)
  \/ PollEnd(FALSE)
  \/ mic_callback({LongBlock}, max_env)
  \/ system_callback({LongBlock}, max_env)
  \/ LoopNext(max_push)
  \/ TaskStep

Next == ProgramNext(MaxEnv, MaxPush)

Spec == Init /\ [][Next]_vars

\* FairSpec: the loop thread keeps running (every call it makes returns), the
\* timer of line 217 keeps firing while the root lives, and a translation task
\* that was started runs to its end.
FairNext == ProgramNext(FairMaxEnv, FairMaxPush)

FairSpec ==
  /\ Init /\ [][FairNext]_vars
  /\ WF_vars(LoopNext(FairMaxPush))
  /\ WF_vars(PollGet(FALSE))
  /\ WF_vars(TaskStep)

\* SpecDisplay: the display (the translation check button and the polls) with
\* the loop and its tasks in the default mode, both devices configured and the
\* history of the display recorded.  SpecWords: the polls with the loop, its
\* tasks, the callbacks and the mode buttons, with that configuration and
\* history.
DisplayConfigs ==
  [ MIC_DEVICE_ID : {"0"},
    SYSTEM_AUDIO_DEVICE_ID : {"1"},
    SILENCE_THRESHOLD : {1},
    PROCESSING_INTERVAL_SECONDS : {1},
    SHOW_TRANSLATION_DEFAULT : {TRUE},
    \* a status message has three words: the capacity leaves room for one more
    SUBTITLE_WORD_BUFFER_SIZE : {4} ]

InitDisplay == InitWith(DisplayConfigs)

NextDisplay ==
  \/ ToggleTranslation(DisplayMaxEnv, TRUE)
  \/ PollGet(TRUE)
  \/ PollEnd(TRUE)
  \/ system_callback({LongBlock}, DisplayMaxEnv)
  \/ LoopNext(DisplayMaxPush)
  \/ TaskStep

SpecDisplay == InitDisplay /\ [][NextDisplay]_vars

NextWords ==
  \/ \E m \in Modes : SetMode(m, WordsMaxEnv)
  \/ PollGet(TRUE)
  \/ PollEnd(TRUE)
  \/ mic_callback({LongBlock}, WordsMaxEnv)
  \/ system_callback({LongBlock}, WordsMaxEnv)
  \/ LoopNext(WordsMaxPush)
  \/ TaskStep

SpecWords == InitDisplay /\ [][NextWords]_vars

\* SpecContext: the capture loop fed with enough sound for more windows than
\* the translation context holds, two recognizable texts, the mode buttons and
\* the translation check button.  Nothing is polled and the tasks started are
\* left where they start.
ContextBlock == [i \in 1..((TranslationMaxLen + 1) * interval_samples) |-> 1]
ContextTexts == { <<"a">>, <<"b", " ", "c">> }

NextContext ==
  \/ \E m \in Modes : SetMode(m, ContextMaxEnv)
  \/ ToggleTranslation(ContextMaxEnv, FALSE)
  \/ mic_callback({ContextBlock}, ContextMaxEnv)
  \/ system_callback({ContextBlock}, ContextMaxEnv)
  \/ LoadModel
  \/ LoopCheck(ContextMaxPush)
  \/ ReadMode
  \/ SwitchClose
  \/ SwitchClear
  \/ SwitchOpen
  \/ Collect
  \/ TakeWindow
  \/ SilenceGate
  \/ Transcribe(ContextTexts)
  \/ PutSubtitle
  \/ Dispatch
  \/ HandleError

SpecContext == InitDisplay /\ [][NextContext]_vars

(***************************************************************************)
(* SpecAudio: the capture loop with its audio sources and the mode radio   *)
(* buttons.  The display's polls, quit_app and the translation tasks are   *)
(* left out: the loop reads nothing they write but the running flag.       *)
(***************************************************************************)
AudioConfigs ==
  [ MIC_DEVICE_ID : {"0"},
    SYSTEM_AUDIO_DEVICE_ID : {"1"},
    SILENCE_THRESHOLD : {0, 1},
    PROCESSING_INTERVAL_SECONDS : {1},
    SHOW_TRANSLATION_DEFAULT : {TRUE},
    SUBTITLE_WORD_BUFFER_SIZE : {2} ]

InitAudio == InitWith(AudioConfigs)

NextAudio ==
  \/ \E m \in Modes : SetMode(m, AudioMaxEnv)
  \/ mic_callback(Blocks, AudioMaxEnv)
  \/ system_callback(Blocks, AudioMaxEnv)
  \/ LoadModel
  \/ LoopCheck(AudioMaxPush)
  \/ ReadMode
  \/ SwitchClose
  \/ SwitchClear
  \/ SwitchOpen
  \/ Collect
  \/ TakeWindow
  \/ SilenceGate
  \/ Transcribe(RawTexts)
  \/ PutSubtitle
  \/ Dispatch
  \/ HandleError

SpecAudio == InitAudio /\ [][NextAudio]_vars

(***************************************************************************)
(* The segment buffer (claims C1 to C4), under SpecAudio.                  *)
(***************************************************************************)
\* the loop thread takes a step
LoopMoves == pc' # pc

\* a window is taken by this step
Takes == pc = "take" /\ pc' = "gate"

C1_TakeStep ==
  /\ Takes => /\ Len(audio_buffer) >= config.PROCESSING_INTERVAL_SECONDS * samplerate
              /\ Len(processing_audio') = config.PROCESSING_INTERVAL_SECONDS * samplerate
              /\ audio_buffer = processing_audio' \o audio_buffer'
  /\ (pc = "take" /\ LoopMoves /\ ~Takes) =>
        /\ Len(audio_buffer) < config.PROCESSING_INTERVAL_SECONDS * samplerate
        /\ audio_buffer' = audio_buffer

\* C1: a window is taken only when (and whenever) the mixed buffer holds at
\* least processing_interval_seconds x samplerate samples; the window is that
\* many samples from the head of the buffer and the buffer keeps the rest; and
\* since the buffer was last cleared, samples appended = samples taken +
\* samples in the buffer.
C1_WindowAccounting ==
  /\ [](hist.balance = Len(audio_buffer))
  /\ [][C1_TakeStep]_vars

\* a window was taken from a buffer that held more than one interval
C1_Witness ==
  /\ pc = "gate"
  /\ Len(processing_audio) = interval_samples
  /\ audio_buffer # << >>

\* the window at the gate, against the threshold, by what the claim says:
\* RMS = sqrt(mean(sample^2)); for a threshold T >= 0, RMS < T iff
\* sum(sample^2) < T^2 x length, and likewise for = and >
RmsBelow(w) ==
  /\ config.SILENCE_THRESHOLD >= 0
  /\ SumSq(w) < config.SILENCE_THRESHOLD * config.SILENCE_THRESHOLD * Len(w)
RmsEqual(w) ==
  /\ config.SILENCE_THRESHOLD >= 0
  /\ SumSq(w) = config.SILENCE_THRESHOLD * config.SILENCE_THRESHOLD * Len(w)
RmsAbove(w) ==
  \/ config.SILENCE_THRESHOLD < 0
  \/ SumSq(w) > config.SILENCE_THRESHOLD * config.SILENCE_THRESHOLD * Len(w)

AllZero(w) == \A i \in 1..Len(w) : w[i] = 0

C2_GateStep ==
  (pc = "gate" /\ LoopMoves) =>
     /\ (AllZero(processing_audio) /\ config.SILENCE_THRESHOLD > 0)
           => RmsBelow(processing_audio)
     /\ RmsBelow(processing_audio) =>
           /\ pc' = "silent"
           /\ audio_buffer' = audio_buffer
           /\ results_queue' = results_queue
           /\ translation_input_buffer' = translation_input_buffer
           /\ tasks' = tasks
     /\ RmsAbove(processing_audio) =>
           /\ pc' = "transcribe"
           /\ processing_audio' = processing_audio

\* C2: a window whose RMS is below the silence threshold (every all-zero
\* window when the threshold is positive) stays removed from the buffer and
\* the iteration ends there: no transcription, no Result, the translation
\* context untouched, no task.  A window whose RMS is above the threshold goes
\* to the transcription.  The only way to the transcription and to a push of
\* recognized text is through the gate.
C2_SilenceGate ==
  /\ [][C2_GateStep]_vars
  /\ [][pc' = "transcribe" /\ LoopMoves => pc = "gate"]_vars
  /\ [](pc = "silent" => RmsBelow(processing_audio))
  /\ [](pc \in {"transcribe", "put", "dispatch"} => ~RmsBelow(processing_audio))

\* a window of zeros was dropped at the gate, the buffer not being empty
C2_Witness ==
  /\ pc = "silent"
  /\ AllZero(processing_audio)
  /\ Len(processing_audio) = interval_samples
  /\ config.SILENCE_THRESHOLD > 0

\* the original C3: a window whose RMS equals the threshold is discarded
C3_EqualDiscarded ==
  [][(pc = "gate" /\ LoopMoves /\ RmsEqual(processing_audio)) => pc' = "silent"]_vars

\* C3, amended: a window whose RMS equals the threshold is not discarded; it
\* goes to the transcription like a louder one (the gate is <, not <=).
C3_EqualForwarded ==
  [][(pc = "gate" /\ LoopMoves /\ RmsEqual(processing_audio)) =>
        (pc' = "transcribe" /\ processing_audio' = processing_audio)]_vars

\* a window whose RMS equals a positive threshold is at the transcription
C3_Witness ==
  /\ pc = "transcribe"
  /\ config.SILENCE_THRESHOLD > 0
  /\ RmsEqual(processing_audio)

Min(a, b) == IF a <= b THEN a ELSE b
Max(a, b) == IF a <= b THEN b ELSE a

\* what the claim says of the mix of A (microphone) and B (system audio)
MixedAsClaimed(A, B, out) ==
  /\ (A = << >> /\ B = << >>) => out = << >>
  /\ (A # << >> /\ B = << >>) => out = A
  /\ (A = << >> /\ B # << >>) => out = B
  /\ (A # << >> /\ B # << >>) =>
        /\ Len(out) = Max(Len(A), Len(B))
        /\ \A i \in 1..Len(out) :
              out[i] = IF i <= Min(Len(A), Len(B)) THEN A[i] + B[i]
                       ELSE IF Len(A) > Len(B) THEN A[i] ELSE B[i]

C4_CollectStep ==
  (pc = "collect" /\ LoopMoves) =>
     LET n == Len(audio_buffer)
     IN  /\ Len(audio_buffer') >= n
         /\ SubSeq(audio_buffer', 1, n) = audio_buffer
         /\ MixedAsClaimed(Flatten(mic_audio_queue), Flatten(system_audio_queue),
                           SubSeq(audio_buffer', n + 1, Len(audio_buffer')))

\* C4: what one tick appends to the mixed buffer, for the samples A drained
\* from the microphone queue and B from the system queue: nothing when both are
\* empty; the non-empty one as it is when the other is empty; otherwise
\* max(len A, len B) samples, A[i] + B[i] up to the shorter length and the tail
\* of the longer one after it.
C4_Mixing == [][C4_CollectStep]_vars

\* a tick mixed two sources of different lengths
C4_Witness ==
  /\ pc = "take"
  /\ mic_chunks # << >>
  /\ system_chunks # << >>
  /\ Len(Flatten(mic_chunks)) # Len(Flatten(system_chunks))

(***************************************************************************)
(* The mode switch (claims C5 and C6), under Spec.                         *)
(***************************************************************************)
\* this step pushes exactly one Result, of type t and text x
PushesOne(t, x) ==
  /\ Len(results_queue') = Len(results_queue) + 1
  /\ SubSeq(results_queue', 1, Len(results_queue)) = results_queue
  /\ results_queue'[Len(results_queue')].type = t
  /\ results_queue'[Len(results_queue')].text = x

C5_SwitchSteps ==
  /\ (pc = "readmode" /\ LoopMoves /\ pc' # "except") =>
        /\ current_mode' = audio_source_mode
        /\ (audio_source_mode # last_mode) <=> (pc' = "switch")
  /\ (pc = "switch" /\ LoopMoves) =>
        /\ pc' = "clear"
        /\ PushesOne("subtitle", <<"switch_to", " ", current_mode, " ", "mode...">>)
        /\ last_mode' = current_mode
  /\ (pc = "clear" /\ LoopMoves) =>
        /\ pc' = "open"
        /\ audio_buffer' = << >>
        /\ word_buffer' = << >>
        /\ translation_input_buffer' = << >>
        /\ results_queue' = results_queue

\* C5: when the loop reads a mode other than the active one, its next step
\* pushes the switch-status Subtitle of the new mode (so that is its first push
\* after the change was seen, ahead of any recognized text of the new mode),
\* and the step after it leaves the mixed buffer, the rolling word buffer and
\* the translation context buffer empty.
C5_ModeSwitch == [][C5_SwitchSteps]_vars

\* a switch away from an active mode that found the three buffers filled has
\* emptied them, its status message being the newest Result
C5_Witness ==
  /\ pc = "open"
  /\ hist.dirty
  /\ audio_buffer = << >> /\ word_buffer = << >> /\ translation_input_buffer = << >>
  /\ results_queue # << >>
  /\ results_queue[Len(results_queue)].text = SwitchMsg(current_mode)

\* the original C6: a transition that ends with no stream in the list, for
\* whatever reason, has put the active mode back to the unset value, so that
\* the next iteration tries again
C6_NoSourceRetried ==
  (pc \in AtWhile /\ streams = << >>) => last_mode = ""

(***************************************************************************)
(* Shutdown (claims C7 and C8).                                            *)
(***************************************************************************)
LoopLeft == pc \in {"done", "returned"}

C8_NoPushAfterStopped == pc = "done" => hist.npushed = hist.done_at

C8_LateSteps ==
  /\ \A i \in 1..Len(tasks) :
       (~app_running /\ tasks[i].pc = "translate") => tasks'[i].pc # "put"
  /\ (pc = "done" /\ hist'.npushed # hist.npushed) =>
       \E i \in 1..Len(tasks) : tasks[i].pc = "put" /\ tasks'[i].pc = "done"

\* C8, amended: after the loop has ended following a shutdown request the loop
\* pushes nothing, and a task that reads the running flag after the request
\* pushes nothing; what may still arrive is the Translation Result of a task
\* that had read the flag as true before the request, one per such task.
C8_OnlyInFlight ==
  /\ [][C8_LateSteps]_vars
  /\ [](pc = "done" =>
          /\ hist.npushed - hist.done_at <= Len(tasks)
          /\ \A i \in 1..Len(results_queue) :
                results_queue[i].id > hist.done_at
                   => results_queue[i].type = "translation")

\* a Result arrived after the loop had ended
C8_Witness == pc = "done" /\ hist.npushed > hist.done_at

(***************************************************************************)
(* The result queue (claim C9), under FairSpec.                            *)
(***************************************************************************)
\* the positions where the next statement of the loop is a put
AtPut == {"load", "switch", "put", "except"}

C9_PollStep ==
  (hist'.nconsumed # hist.nconsumed) =>
     /\ results_queue # << >>
     /\ hist'.nconsumed = hist.nconsumed + 1
     /\ hist'.nconsumed = Head(results_queue).id
     /\ results_queue' = Tail(results_queue)

\* C9: the queue holds, in the order of the pushes, exactly the Results pushed
\* and not yet consumed; the display consumes them one by one from the head;
\* a put is never held up by the state of the queue; and while the display
\* polls, every Result pushed is consumed in the end (the queue runs empty:
\* with the order above, whatever was pushed by then has been consumed).
C9_Queue ==
  /\ [](/\ Len(results_queue) = hist.npushed - hist.nconsumed
        /\ \A i \in 1..Len(results_queue) :
              results_queue[i].id = hist.nconsumed + i)
  /\ [][C9_PollStep]_vars
  /\ [](pc \in AtPut => ENABLED LoopNext(FairMaxPush))
  /\ [](\A i \in 1..Len(tasks) : tasks[i].pc = "put" => ENABLED TaskPut(i))
  /\ (results_queue # << >>) ~> (results_queue = << >> \/ ~app_running)

\* the display has consumed Results while a subtitle of the loop and a
\* translation of a task wait in the queue
C9_Witness ==
  /\ hist.nconsumed >= 2
  /\ \E i, j \in 1..Len(results_queue) :
        /\ i < j
        /\ results_queue[i].type = "subtitle"
        /\ results_queue[j].type = "translation"

(***************************************************************************)
(* Recognized text (claim C10), under Spec.                                *)
(***************************************************************************)
C10_Steps ==
  /\ (pc = "transcribe" /\ LoopMoves) =>
        /\ results_queue' = results_queue /\ tasks' = tasks
        /\ pc' = "put" => recognized_text' # << >>
        /\ pc' = "notext" => recognized_text' = << >>
  /\ (pc = "put" /\ LoopMoves) =>
        /\ pc' = "dispatch"
        /\ PushesOne("subtitle", recognized_text)
  /\ (pc = "notext" /\ LoopMoves) =>
        /\ results_queue' = results_queue /\ tasks' = tasks
  /\ (Len(results_queue') > Len(results_queue)
        /\ results_queue'[Len(results_queue')].origin = "recognized") => pc = "put"
  /\ Len(tasks') > Len(tasks) => pc = "dispatch"

\* C10: a window that passed the gate and for which the transcription gave
\* text that is not empty once stripped gets exactly one Subtitle Result with
\* that text, pushed at the tail of the queue before the next window is taken;
\* a window whose text is empty gets no Result and no translation task.
C10_Recognized ==
  /\ [][C10_Steps]_vars
  /\ [](hist.owed = IF pc = "put" THEN 1 ELSE 0)
  /\ [](\A i \in 1..Len(results_queue) :
           results_queue[i].origin = "recognized" =>
              /\ results_queue[i].type = "subtitle"
              /\ results_queue[i].text # << >>
              /\ results_queue[i].text[1] # " "
              /\ results_queue[i].text[Len(results_queue[i].text)] # " ")

\* the subtitles of two windows wait in the queue, the second just pushed
C10_Witness ==
  /\ pc = "dispatch"
  /\ \E i, j \in 1..Len(results_queue) :
        /\ i < j /\ j = Len(results_queue)
        /\ results_queue[i].origin = "recognized"
        /\ results_queue[j].origin = "recognized"
        /\ results_queue[j].text = recognized_text

(***************************************************************************)
(* Translation tasks (claims C11 and C12), under FairSpec.                 *)
(***************************************************************************)
\* this step pushes a Result of type t
PushesType(t) ==
  /\ Len(results_queue') = Len(results_queue) + 1
  /\ results_queue'[Len(results_queue')].type = t

C11_Steps ==
  /\ Len(tasks') > Len(tasks) =>
        /\ pc = "dispatch" /\ show_translation
        /\ Len(tasks') = Len(tasks) + 1
        /\ SubSeq(tasks', 1, Len(tasks)) = tasks
        /\ tasks'[Len(tasks')].sub = hist.last_sub
        /\ \A i \in 1..Len(tasks) : tasks[i].sub < hist.last_sub
  /\ (pc = "dispatch" /\ LoopMoves /\ ~show_translation) => tasks' = tasks
  /\ (pc = "put" /\ LoopMoves) => hist'.last_sub = hist'.npushed
  /\ PushesType("translation") =>
        \E i \in 1..Len(tasks) :
           /\ tasks[i].pushed = 0
           /\ tasks'[i].pushed = results_queue'[Len(results_queue')].id
           /\ tasks'[i].pushed > tasks[i].sub
           /\ \A j \in 1..Len(tasks) : j # i => tasks'[j] = tasks[j]
  /\ \A i \in 1..Len(tasks) :
        tasks[i].pushed # 0 => tasks'[i].pushed = tasks[i].pushed

\* C11: a translation task is started only at the dispatch of a recognized
\* Subtitle with the translation display enabled, one task for that Subtitle
\* and none when the display is disabled; a task pushes at most one Translation
\* Result, after its Subtitle; and, while the application runs, every task
\* started pushes its Translation Result in the end.
C11_OneTranslationEach ==
  /\ [][C11_Steps]_vars
  /\ \A i \in 1..FairMaxPush :
        (Len(tasks) >= i) ~>
           ((Len(tasks) >= i /\ tasks[i].pushed # 0) \/ ~app_running)

\* the original C12: whatever goes wrong in the translation, translate_text
\* hands a string to the task (no exception leaves it), and a task that has
\* ended without a Result ended so only because the running flag was down
C12_NeverPropagated ==
  \A i \in 1..Len(tasks) :
     /\ tasks[i].pc # "raised"
     /\ tasks[i].pc = "put" => tasks[i].translated # << >>
     /\ (tasks[i].pc = "done" /\ tasks[i].pushed = 0) => ~app_running

\* a task has ended by an exception, with no Result, the application running
C12_Witness ==
  /\ app_running
  /\ \E i \in 1..Len(tasks) : tasks[i].pc = "raised" /\ tasks[i].pushed = 0

(***************************************************************************)
(* Errors inside an iteration (claim C13), under Spec.                     *)
(***************************************************************************)
C13_Steps ==
  /\ (pc' = "except" /\ LoopMoves) => pc \in {"readmode", "open", "transcribe", "dispatch"}
  /\ (pc = "except" /\ LoopMoves) =>
        /\ pc' = "handled"
        /\ PushesOne("subtitle", <<"error:", " ", "e">>)
  /\ (Len(results_queue') > Len(results_queue)
        /\ results_queue'[Len(results_queue')].origin = "error") => pc = "except"
  /\ (pc = "handled" /\ LoopMoves) =>
        pc' = IF app_running THEN "readmode" ELSE "done"
  /\ (pc' = "done" /\ LoopMoves) => (~app_running /\ pc \in AtWhile)
  /\ (pc' = "returned" /\ LoopMoves) =>
        /\ pc = "load"
        /\ results_queue'[Len(results_queue')].origin = "loadfailed"

\* C13: an error raised inside an iteration (reading the mode, opening the
\* streams, transcribing, dispatching) is caught there: the next step of the
\* loop pushes one diagnostic Subtitle and comes back to the test of the while
\* loop, from where the next iteration starts if the application runs; the
\* handler is never held up; the loop is left only when the running flag is
\* down, or at startup when the model cannot be loaded.
C13_ErrorsCaught ==
  /\ [][C13_Steps]_vars
  /\ [](pc = "except" => ENABLED HandleError)
  /\ []((pc = "handled" /\ app_running /\ hist.npushed + 2 <= MaxPush)
          => ENABLED LoopCheck(MaxPush))
  /\ [](pc = "returned" => hist.npushed >= 1 /\ streams = << >>)

\* after an error was reported the loop has recognized a later window, the
\* application still running
C13_Witness ==
  /\ app_running
  /\ pc = "dispatch"
  /\ \E i, j \in 1..Len(results_queue) :
        /\ i < j
        /\ results_queue[i].origin = "error"
        /\ results_queue[j].origin = "recognized"

(***************************************************************************)
(* The rolling word buffer (claim C14), under SpecWords.                   *)
(***************************************************************************)
\* the most recent min(n, Len(seq)) elements of seq, in their order
LastN(seq, n) ==
  [k \in 1..Min(n, Len(seq)) |-> seq[Len(seq) - Min(n, Len(seq)) + k]]

\* all the words the display has received, in arrival order
WordsReceived == [k \in 1..Len(hist.words) |-> hist.words[k].w]
\* those received after the loop last cleared the buffer (line 246)
WordsSinceClear ==
  [k \in 1..(Len(hist.words) - hist.cleared_at) |->
      hist.words[hist.cleared_at + k].w]

\* the display consumes a Subtitle that has words
ConsumesWords ==
  /\ hist'.nconsumed # hist.nconsumed
  /\ Head(results_queue).type = "subtitle"
  /\ \E k \in 1..Len(Head(results_queue).text) : Head(results_queue).text[k] # " "

\* the original C14: the rolling word buffer holds the most recent
\* min(N, total) words of all the words received
C14_MostRecentOfAll ==
  word_buffer = LastN(WordsReceived, config.SUBTITLE_WORD_BUFFER_SIZE)

\* C14, amended: the rolling word buffer never holds more than N words; it
\* holds the most recent min(N, total) words received since the capture loop
\* last cleared it at a mode switch, in arrival order; and each time the
\* display consumes a Subtitle that has words the rendered line becomes the
\* space-joined buffer (and changes at no other time).
C14_RollingWords ==
  /\ [](Len(word_buffer) <= config.SUBTITLE_WORD_BUFFER_SIZE)
  /\ [](word_buffer = LastN(WordsSinceClear, config.SUBTITLE_WORD_BUFFER_SIZE))
  /\ [][IF ConsumesWords
        THEN subtitle_text_widget' = Join(word_buffer')
        ELSE subtitle_text_widget' = subtitle_text_widget]_vars

\* more than N words were received since the last clear: the oldest is gone
C14_Witness ==
  /\ Len(WordsSinceClear) > config.SUBTITLE_WORD_BUFFER_SIZE
  /\ Len(word_buffer) = config.SUBTITLE_WORD_BUFFER_SIZE
  /\ word_buffer[1] # WordsSinceClear[1]
  /\ subtitle_text_widget = Join(word_buffer)

(***************************************************************************)
(* The translation context buffer (claim C15), under SpecContext.          *)
(***************************************************************************)
RECURSIVE SpaceJoined(_)
\* the segments one after the other, one space between two of them
SpaceJoined(segs) ==
  IF segs = << >> THEN << >>
  ELSE IF Len(segs) = 1 THEN segs[1]
  ELSE SpaceJoined(SubSeq(segs, 1, Len(segs) - 1)) \o <<" ">> \o segs[Len(segs)]

C15_Steps ==
  /\ (pc = "dispatch" /\ LoopMoves /\ show_translation) =>
        /\ Len(tasks') = Len(tasks) + 1
        /\ tasks'[Len(tasks')].text =
              SpaceJoined(LastN(Append(hist.segs, recognized_text), 3))
        /\ translation_input_buffer' =
              LastN(Append(hist.segs, recognized_text), 3)
  /\ \A i \in 1..Len(tasks) : tasks'[i].text = tasks[i].text

\* C15: the translation context buffer never holds more than 3 segments; it
\* holds the most recent up to 3 segments appended since it was last cleared;
\* the text a task is started with is those segments joined by single spaces,
\* oldest first, the segment just recognized last; and the text of a task
\* never changes afterwards, whatever is appended later.
C15_Context ==
  /\ [](Len(translation_input_buffer) <= 3)
  /\ [](translation_input_buffer = LastN(hist.segs, 3))
  /\ [][C15_Steps]_vars

\* a fourth segment was appended: the first one is not in the text of the
\* fourth task, whose text differs from the text of the third
C15_Witness ==
  /\ Len(hist.segs) = 4
  /\ Len(tasks) >= 4
  /\ hist.segs[1] # hist.segs[2]
  /\ tasks[Len(tasks)].text = SpaceJoined(SubSeq(hist.segs, 2, 4))
  /\ tasks[Len(tasks) - 1].text = SpaceJoined(SubSeq(hist.segs, 1, 3))

(***************************************************************************)
(* Who writes the buffers (claim C16), under Spec.                         *)
(***************************************************************************)
\* the original C16: the mixed sample buffer, the rolling word buffer and the
\* translation context buffer change only in steps of the capture loop thread
C16_LoopOwnsBuffers ==
  [][(\/ audio_buffer' # audio_buffer
      \/ word_buffer' # word_buffer
      \/ translation_input_buffer' # translation_input_buffer) => LoopMoves]_vars

\* the display (Tk thread) has filled the word buffer and the loop thread is
\* about to clear it
C16_Witness ==
  /\ pc = "clear"
  /\ word_buffer # << >>
  /\ hist.nconsumed > 0

(***************************************************************************)
(* The displayed translation (claim C17), under SpecDisplay.               *)
(***************************************************************************)
\* periodic_gui_update has run to its end and no control was clicked since
EndOfPoll == gui_pc = "idle" /\ ~hist.toggled

\* the original C17: at the end of a poll the label is empty when the display
\* is disabled, and when it is enabled it shows the Translation that was
\* consumed last while the display was enabled
C17_LatestArrived ==
  EndOfPoll => translation_text = IF show_translation THEN hist.last_tr ELSE << >>

C17_Steps ==
  /\ (hist'.nconsumed # hist.nconsumed /\ Head(results_queue).type = "translation") =>
        translation_text' = IF show_translation THEN Head(results_queue).text
                            ELSE translation_text
  /\ (hist'.nconsumed # hist.nconsumed /\ Head(results_queue).type # "translation") =>
        translation_text' = translation_text
  /\ (hist'.nconsumed = hist.nconsumed /\ translation_text' # translation_text) =>
        /\ Polling /\ results_queue = << >> /\ ~show_translation
        /\ translation_text' = << >>

\* C17, amended: at the end of a poll the label is empty when the display is
\* disabled; when it is enabled the label shows the Translation consumed last
\* while the display was enabled (by arrival), unless a poll has ended with the
\* display disabled since that one was consumed: then the label stays empty
\* until the next Translation is consumed.  A Translation consumed while the
\* display is disabled changes nothing.
C17_Translation ==
  /\ [](EndOfPoll =>
          translation_text = IF show_translation /\ ~hist.tr_cleared
                             THEN hist.last_tr ELSE << >>)
  /\ [][C17_Steps]_vars

\* a Translation was shown, the display was disabled for a poll and enabled
\* again: the label is empty
C17_Witness ==
  /\ EndOfPoll
  /\ show_translation
  /\ hist.tr_cleared
  /\ hist.last_tr # << >>
  /\ translation_text = << >>

(***************************************************************************)
(* The audio streams (claim C18), under Spec.                              *)
(***************************************************************************)
\* what the claim says a mode requires, among the configured devices
Required(mode) ==
  { d \in {"mic", "sys"} :
      \/ d = "mic" /\ mode \in {"mic", "mix"} /\ config.MIC_DEVICE_ID # "None"
      \/ d = "sys" /\ mode \in {"sys", "mix"} /\ config.SYSTEM_AUDIO_DEVICE_ID # "None" }

StartedDevices == { streams[i].dev : i \in { j \in 1..Len(streams) : streams[j].started } }

\* the loop is inside its while loop and not in the middle of a transition,
\* and the last transition did not end by an exception
TransitionCompleted ==
  /\ pc \notin {"load", "returned", "done", "clear", "open"}
  /\ ~hist.open_failed

C18_Steps ==
  /\ (pc = "switch" /\ LoopMoves) => streams' = << >>
  /\ (streams' # streams /\ streams' # << >>) => (streams = << >> /\ pc = "open")

\* C18: never more than two streams; a mode change first stops and closes
\* every stream and only then creates the streams of the new mode; when the
\* active mode is set and the transition to it was completed, the streams are
\* all started and are those of the devices the mode requires among the
\* configured ones, one each; when the active mode is the unset value there is
\* no stream.
C18_Streams ==
  /\ [](Len(streams) <= 2)
  /\ [][C18_Steps]_vars
  /\ []((TransitionCompleted /\ last_mode # "") =>
          /\ StartedDevices = Required(last_mode)
          /\ Len(streams) = Cardinality(Required(last_mode))
          /\ \A i \in 1..Len(streams) : streams[i].started)
  /\ [](last_mode = "" => streams = << >>)

\* the mixed mode is active after another mode was, with its two streams
C18_Witness ==
  /\ pc = "collect"
  /\ last_mode = "mix"
  /\ hist.nenv > 0
  /\ Len(streams) = 2
  /\ StartedDevices = {"mic", "sys"}

(***************************************************************************)
(* Blocks left over from the previous mode (claim C19), under Spec.        *)
(***************************************************************************)
\* the original C19: what a tick drains from the per-source queues and mixes
\* into the buffer was enqueued after the last mode switch; no block that was
\* waiting in a queue when the streams of the previous mode were closed is
\* among it
C19_NoStaleBlocks ==
  [][(pc = "collect" /\ LoopMoves) =>
        (hist.stale = 0 \/ Len(audio_buffer') = Len(audio_buffer))]_vars

\* the microphone mode is active, its stream started, and the next tick will
\* drain a block of the system device, enqueued before the switch
C19_Witness ==
  /\ pc = "collect"
  /\ last_mode = "mic"
  /\ StartedDevices = {"mic"}
  /\ hist.stale > 0
  /\ system_audio_queue # << >>
  /\ audio_buffer = << >>

(***************************************************************************)
(* Words of the previous mode (claim C20), under SpecWords.                *)
(***************************************************************************)
\* the id of the Result the k-th word of the rolling word buffer came from
\* (the buffer holds the words received last)
WordSource(k) == hist.words[Len(hist.words) - Len(word_buffer) + k].id

\* the original C20: once the display has consumed the switch-status Subtitle
\* of a mode switch, no word of the rolling word buffer comes from a Result
\* pushed before that Subtitle
C20_NoOldWords ==
  \A k \in 1..Len(word_buffer) : WordSource(k) >= hist.last_switch

\* the display shows a word recognized in the previous mode in front of the
\* status message of the switch that should have removed it
C20_Witness ==
  /\ gui_pc = "idle"
  /\ Len(word_buffer) = 4
  /\ word_buffer[1] = <<"hello">>
  /\ WordSource(1) < hist.last_switch
  /\ WordSource(2) = hist.last_switch
  /\ subtitle_text_widget = Join(word_buffer)

====
